---- MODULE Spec2Model ----
(***************************************************************************)
(* Regular weak references of the Kotlin/Native runtime                    *)
(* (kotlin-native/runtime/src/mm/cpp/Weak.cpp).                            *)
(*                                                                         *)
(* Mutator threads run createRegularWeakReferenceImpl,                     *)
(* derefRegularWeakReferenceImpl and                                       *)
(* regularWeakReferenceImplBaseObjectUnsafe; one collector runs            *)
(* disposeRegularWeakReferenceImpl.  Every shared-memory access of a       *)
(* function is one step, so every interleaving of the accesses is a        *)
(* behaviour of the model.                                                 *)
(*                                                                         *)
(* ExtraObjectData, makeRegularWeakReferenceImpl, AssertThreadState and    *)
(* ReadHeapRefAtomic are declared outside Weak.cpp; their steps follow     *)
(* the contracts of spec.md (sections 4.1, 4.2, 4.4 and 7).                *)
(***************************************************************************)
EXTENDS Integers, Sequences, FiniteSets, TLC

\* Bounds of the model: the mutator threads and the heap objects that weak
\* references are created for.
NThreads == 2
NObjects == 2

Threads == 1..NThreads
Objects == 1..NObjects

\* nullptr, as an object pointer, a handle and a side-table pointer.
Null == 0
\* A pointer value that is neither nullptr nor the address of an object:
\* what a load that races with a non-atomic store may produce.
Garbage == -1

kRunnable == "kRunnable"
kNative == "kNative"
ThreadStates == {kRunnable, kNative}

VARIABLES
    threadState,   \* [Threads -> ThreadStates]: the thread's state at its last create
    pc,            \* [Threads -> position of the thread inside its call]
    object,        \* create's parameter `object`
    extraObject,   \* create's local `extraObject` (id of an ExtraObjectData)
    weakRef,       \* create's local `weakRef`; deref's parameter `weakRef`
    result,        \* the value the call returns
    startedAfter,  \* deref only: the call started after dispose(weakRef) completed
    meta,          \* [Objects -> id of the installed ExtraObjectData, or Null]
    extraObjects,  \* heap of ExtraObjectData: Seq of [base, regularWeakReferenceImpl]
    weakRefs,      \* heap of RegularWeakReferenceImpl: Seq of [referred, target]
    gcPc,          \* position of the collector: "idle" or "store"
    gcWeakRef,     \* dispose's parameter `weakRef`
    created,       \* history: [Objects -> handles returned by create(object)]
    disposeCalls,  \* history: handles dispose was called on
    disposed,      \* history: handles on which a dispose call completed
    aborted        \* the process was terminated by a failed runtime assertion

locals == <<pc, object, extraObject, weakRef, result, startedAfter>>
heap == <<meta, extraObjects, weakRefs>>
collector == <<gcPc, gcWeakRef>>
history == <<created, disposeCalls, disposed>>
vars == <<threadState, locals, heap, collector, history, aborted>>

Handles == 1..Len(weakRefs)
\* The handles a caller can hold: those some create call returned.
Returned == UNION {created[o] : o \in Objects}
\* The handles the collector can find: those cached in a side table.
Published == {extraObjects[e].regularWeakReferenceImpl : e \in 1..Len(extraObjects)} \ {Null}

Init ==
    /\ threadState = [t \in Threads |-> kRunnable]
    /\ pc = [t \in Threads |-> "idle"]
    /\ object = [t \in Threads |-> Null]
    /\ extraObject = [t \in Threads |-> Null]
    /\ weakRef = [t \in Threads |-> Null]
    /\ result = [t \in Threads |-> Null]
    /\ startedAfter = [t \in Threads |-> FALSE]
    /\ meta = [o \in Objects |-> Null]
    /\ extraObjects = <<>>
    /\ weakRefs = <<>>
    /\ gcPc = "idle"
    /\ gcWeakRef = Null
    /\ created = [o \in Objects |-> {}]
    /\ disposeCalls = {}
    /\ disposed = {}
    /\ aborted = FALSE

\* AssertThreadState(thread, expected): the assertion holds iff the thread is
\* in the expected state; a failed assertion is fatal (spec.md 4.2, 7).
AssertThreadState(actual, expected) == actual = expected

\* ExtraObjectData::GetRegularWeakReferenceImpl: a read of the cached handle.
GetRegularWeakReferenceImpl(e) == extraObjects[e].regularWeakReferenceImpl

\* ExtraObjectData::GetOrSetRegularWeakReferenceImpl(object, candidate): one
\* compare-and-set of the slot.  <<the slot afterwards, the handle returned>>.
GetOrSetRegularWeakReferenceImpl(e, candidate) ==
    IF extraObjects[e].regularWeakReferenceImpl = Null
    THEN <<candidate, candidate>>
    ELSE <<extraObjects[e].regularWeakReferenceImpl, extraObjects[e].regularWeakReferenceImpl>>

\* makeRegularWeakReferenceImpl(object): a new RegularWeakReferenceImpl whose
\* referred field is the object (spec.md 4.2 step 3).
makeRegularWeakReferenceImpl(o) == [referred |-> o, target |-> o]

\* Mutant of createEnter: the thread-state assertion is missing.
createEnter_NoAssert(t, o, state) ==
    /\ ~aborted
    /\ pc[t] = "idle"
    /\ threadState' = [threadState EXCEPT ![t] = state]
    /\ object' = [object EXCEPT ![t] = o]
    /\ pc' = [pc EXCEPT ![t] = "GetOrInstall"]
    /\ UNCHANGED <<extraObject, weakRef, result, startedAfter,
                   heap, collector, history, aborted>>

\* Weak.cpp 32-34: a mutator thread, in whatever state it has switched to
\* since its last call, enters create(o); CurrentThreadData() is its own
\* thread data, and a failed thread-state assertion terminates the process.
createEnter(t, o, state) ==
    /\ ~aborted
    /\ pc[t] = "idle"
    /\ threadState' = [threadState EXCEPT ![t] = state]
    /\ object' = [object EXCEPT ![t] = o]
    /\ IF AssertThreadState(state, kRunnable)
       THEN /\ pc' = [pc EXCEPT ![t] = "GetOrInstall"]
            /\ UNCHANGED aborted
       ELSE /\ pc' = [pc EXCEPT ![t] = "abort"]
            /\ aborted' = TRUE
    /\ UNCHANGED <<extraObject, weakRef, result, startedAfter,
                   heap, collector, history>>

\* Weak.cpp 36, ExtraObjectData::GetOrInstall(object), first half: load the
\* object's side-table pointer; an installed side table is returned.
GetOrInstallLoad(t) ==
    /\ ~aborted
    /\ pc[t] = "GetOrInstall"
    /\ IF meta[object[t]] # Null
       THEN /\ extraObject' = [extraObject EXCEPT ![t] = meta[object[t]]]
            /\ pc' = [pc EXCEPT ![t] = "GetRegularWeakReferenceImpl"]
       ELSE /\ pc' = [pc EXCEPT ![t] = "GetOrInstallCAS"]
            /\ UNCHANGED extraObject
    /\ UNCHANGED <<threadState, object, weakRef, result, startedAfter,
                   heap, collector, history, aborted>>

\* Mutant of GetOrInstallCAS: the install is a plain store, not a test.
GetOrInstallCAS_Overwrite(t) ==
    /\ ~aborted
    /\ pc[t] = "GetOrInstallCAS"
    /\ extraObjects' = Append(extraObjects,
            [base |-> object[t], regularWeakReferenceImpl |-> Null])
    /\ meta' = [meta EXCEPT ![object[t]] = Len(extraObjects) + 1]
    /\ extraObject' = [extraObject EXCEPT ![t] = Len(extraObjects) + 1]
    /\ pc' = [pc EXCEPT ![t] = "GetRegularWeakReferenceImpl"]
    /\ UNCHANGED <<threadState, object, weakRef, result, startedAfter,
                   weakRefs, collector, history, aborted>>

\* ExtraObjectData::GetOrInstall(object), second half: the atomic install
\* test.  The winner attaches its new side table; a loser drops its own and
\* takes the installed one.
GetOrInstallCAS(t) ==
    /\ ~aborted
    /\ pc[t] = "GetOrInstallCAS"
    /\ IF meta[object[t]] = Null
       THEN /\ extraObjects' = Append(extraObjects,
                    [base |-> object[t], regularWeakReferenceImpl |-> Null])
            /\ meta' = [meta EXCEPT ![object[t]] = Len(extraObjects) + 1]
            /\ extraObject' = [extraObject EXCEPT ![t] = Len(extraObjects) + 1]
       ELSE /\ extraObject' = [extraObject EXCEPT ![t] = meta[object[t]]]
            /\ UNCHANGED <<meta, extraObjects>>
    /\ pc' = [pc EXCEPT ![t] = "GetRegularWeakReferenceImpl"]
    /\ UNCHANGED <<threadState, object, weakRef, result, startedAfter,
                   weakRefs, collector, history, aborted>>

\* Mutant of createFastPath: a cached handle is re-armed with the object
\* before it is returned.
createFastPath_Reinit(t) ==
    /\ ~aborted
    /\ pc[t] = "GetRegularWeakReferenceImpl"
    /\ LET cached == GetRegularWeakReferenceImpl(extraObject[t])
       IN  IF cached # Null
           THEN /\ result' = [result EXCEPT ![t] = cached]
                /\ created' = [created EXCEPT ![object[t]] = @ \cup {cached}]
                /\ weakRefs' = [weakRefs EXCEPT ![cached].referred = object[t]]
                /\ pc' = [pc EXCEPT ![t] = "createRet"]
           ELSE /\ pc' = [pc EXCEPT ![t] = "makeRegularWeakReferenceImpl"]
                /\ UNCHANGED <<result, created, weakRefs>>
    /\ UNCHANGED <<threadState, object, extraObject, weakRef, startedAfter,
                   meta, extraObjects, collector, disposeCalls, disposed, aborted>>

\* Mutant of createFastPath: the cached handle is not looked at; every call
\* goes on to allocate.
createFastPath_AlwaysAllocates(t) ==
    /\ ~aborted
    /\ pc[t] = "GetRegularWeakReferenceImpl"
    /\ pc' = [pc EXCEPT ![t] = "makeRegularWeakReferenceImpl"]
    /\ UNCHANGED <<threadState, object, extraObject, weakRef, result, startedAfter,
                   heap, collector, history, aborted>>

\* Weak.cpp 37-39: read the cached handle; a cached handle is returned.
createFastPath(t) ==
    /\ ~aborted
    /\ pc[t] = "GetRegularWeakReferenceImpl"
    /\ LET cached == GetRegularWeakReferenceImpl(extraObject[t])
       IN  IF cached # Null
           THEN /\ result' = [result EXCEPT ![t] = cached]
                /\ created' = [created EXCEPT ![object[t]] = @ \cup {cached}]
                /\ pc' = [pc EXCEPT ![t] = "createRet"]
           ELSE /\ pc' = [pc EXCEPT ![t] = "makeRegularWeakReferenceImpl"]
                /\ UNCHANGED <<result, created>>
    /\ UNCHANGED <<threadState, object, extraObject, weakRef, startedAfter,
                   heap, collector, disposeCalls, disposed, aborted>>

\* Mutant of createMake: the handle is made for nullptr, not for the object.
createMake_NullReferred(t) ==
    /\ ~aborted
    /\ pc[t] = "makeRegularWeakReferenceImpl"
    /\ weakRefs' = Append(weakRefs, [referred |-> Null, target |-> object[t]])
    /\ weakRef' = [weakRef EXCEPT ![t] = Len(weakRefs) + 1]
    /\ pc' = [pc EXCEPT ![t] = "GetOrSetRegularWeakReferenceImpl"]
    /\ UNCHANGED <<threadState, object, extraObject, result, startedAfter,
                   meta, extraObjects, collector, history, aborted>>

\* Mutant of createMake: the handle is handed on with its referred field
\* not yet initialized.
createMake_Uninitialized(t) ==
    /\ ~aborted
    /\ pc[t] = "makeRegularWeakReferenceImpl"
    /\ weakRefs' = Append(weakRefs, [referred |-> Garbage, target |-> object[t]])
    /\ weakRef' = [weakRef EXCEPT ![t] = Len(weakRefs) + 1]
    /\ pc' = [pc EXCEPT ![t] = "GetOrSetRegularWeakReferenceImpl"]
    /\ UNCHANGED <<threadState, object, extraObject, result, startedAfter,
                   meta, extraObjects, collector, history, aborted>>

\* Weak.cpp 40-41: allocate the candidate handle, held by the local holder.
createMake(t) ==
    /\ ~aborted
    /\ pc[t] = "makeRegularWeakReferenceImpl"
    /\ weakRefs' = Append(weakRefs, makeRegularWeakReferenceImpl(object[t]))
    /\ weakRef' = [weakRef EXCEPT ![t] = Len(weakRefs) + 1]
    /\ pc' = [pc EXCEPT ![t] = "GetOrSetRegularWeakReferenceImpl"]
    /\ UNCHANGED <<threadState, object, extraObject, result, startedAfter,
                   meta, extraObjects, collector, history, aborted>>

\* Mutant of createPublish: RETURN_OBJ(weakRef) instead of RETURN_OBJ(setWeakRef).
createPublish_ReturnsCandidate(t) ==
    /\ ~aborted
    /\ pc[t] = "GetOrSetRegularWeakReferenceImpl"
    /\ LET set == GetOrSetRegularWeakReferenceImpl(extraObject[t], weakRef[t])
       IN  /\ extraObjects' = [extraObjects EXCEPT
                                   ![extraObject[t]].regularWeakReferenceImpl = set[1]]
           /\ result' = [result EXCEPT ![t] = weakRef[t]]
           /\ created' = [created EXCEPT ![object[t]] = @ \cup {weakRef[t]}]
    /\ pc' = [pc EXCEPT ![t] = "createRet"]
    /\ UNCHANGED <<threadState, object, extraObject, weakRef, startedAfter,
                   meta, weakRefs, collector, disposeCalls, disposed, aborted>>

\* Mutant of createPublish: the candidate is stored into the slot whatever
\* the slot holds, and returned.
createPublish_Overwrite(t) ==
    /\ ~aborted
    /\ pc[t] = "GetOrSetRegularWeakReferenceImpl"
    /\ extraObjects' = [extraObjects EXCEPT
                            ![extraObject[t]].regularWeakReferenceImpl = weakRef[t]]
    /\ result' = [result EXCEPT ![t] = weakRef[t]]
    /\ created' = [created EXCEPT ![object[t]] = @ \cup {weakRef[t]}]
    /\ pc' = [pc EXCEPT ![t] = "createRet"]
    /\ UNCHANGED <<threadState, object, extraObject, weakRef, startedAfter,
                   meta, weakRefs, collector, disposeCalls, disposed, aborted>>

\* Mutant of createPublish: a candidate that lost the race is cleared
\* before it is dropped.
createPublish_ClearLoser(t) ==
    /\ ~aborted
    /\ pc[t] = "GetOrSetRegularWeakReferenceImpl"
    /\ LET set == GetOrSetRegularWeakReferenceImpl(extraObject[t], weakRef[t])
           setWeakRef == set[2]
       IN  /\ extraObjects' = [extraObjects EXCEPT
                                   ![extraObject[t]].regularWeakReferenceImpl = set[1]]
           /\ result' = [result EXCEPT ![t] = setWeakRef]
           /\ created' = [created EXCEPT ![object[t]] = @ \cup {setWeakRef}]
           /\ weakRefs' = IF setWeakRef # weakRef[t]
                          THEN [weakRefs EXCEPT ![weakRef[t]].referred = Null]
                          ELSE weakRefs
    /\ pc' = [pc EXCEPT ![t] = "createRet"]
    /\ UNCHANGED <<threadState, object, extraObject, weakRef, startedAfter,
                   meta, collector, disposeCalls, disposed, aborted>>

\* Mutant of createPublish: the publish waits until the slot is empty
\* instead of taking the handle another thread has published.
createPublish_WaitsForEmpty(t) ==
    /\ ~aborted
    /\ pc[t] = "GetOrSetRegularWeakReferenceImpl"
    /\ extraObjects[extraObject[t]].regularWeakReferenceImpl = Null
    /\ extraObjects' = [extraObjects EXCEPT
                            ![extraObject[t]].regularWeakReferenceImpl = weakRef[t]]
    /\ result' = [result EXCEPT ![t] = weakRef[t]]
    /\ created' = [created EXCEPT ![object[t]] = @ \cup {weakRef[t]}]
    /\ pc' = [pc EXCEPT ![t] = "createRet"]
    /\ UNCHANGED <<threadState, object, extraObject, weakRef, startedAfter,
                   meta, weakRefs, collector, disposeCalls, disposed, aborted>>

\* Weak.cpp 42-43: publish the candidate first-writer-wins and return the
\* handle that is published.
createPublish(t) ==
    /\ ~aborted
    /\ pc[t] = "GetOrSetRegularWeakReferenceImpl"
    /\ LET set == GetOrSetRegularWeakReferenceImpl(extraObject[t], weakRef[t])
           setWeakRef == set[2]
       IN  /\ extraObjects' = [extraObjects EXCEPT
                                   ![extraObject[t]].regularWeakReferenceImpl = set[1]]
           /\ result' = [result EXCEPT ![t] = setWeakRef]
           /\ created' = [created EXCEPT ![object[t]] = @ \cup {setWeakRef}]
    /\ pc' = [pc EXCEPT ![t] = "createRet"]
    /\ UNCHANGED <<threadState, object, extraObject, weakRef, startedAfter,
                   meta, weakRefs, collector, disposeCalls, disposed, aborted>>

\* The call is over: the thread's frame is popped.
Return(t) ==
    /\ ~aborted
    /\ pc[t] \in {"createRet", "derefRet", "peekRet"}
    /\ pc' = [pc EXCEPT ![t] = "idle"]
    /\ object' = [object EXCEPT ![t] = Null]
    /\ extraObject' = [extraObject EXCEPT ![t] = Null]
    /\ weakRef' = [weakRef EXCEPT ![t] = Null]
    /\ result' = [result EXCEPT ![t] = Null]
    /\ startedAfter' = [startedAfter EXCEPT ![t] = FALSE]
    /\ UNCHANGED <<threadState, heap, collector, history, aborted>>

\* The collector is between the entry of dispose(h) and its store: the plain
\* store to h's referred field is not ordered with a load that happens now.
StoreInFlight(h) == gcPc = "store" /\ gcWeakRef = h

\* What a load of a pointer-sized field can produce while a non-atomic store
\* of `new` over `old` is in flight (a data race): either value, or, when
\* they differ, a mix of the two.
RaceOutcomes(old, new) == IF old = new THEN {old} ELSE {old, new, Garbage}

\* mm::ReadHeapRefAtomic(location) on h's referred field: the values the
\* atomic load can return.
ReadHeapRefAtomic(h) ==
    IF StoreInFlight(h)
    THEN RaceOutcomes(weakRefs[h].referred, Null)
    ELSE {weakRefs[h].referred}

\* Weak.cpp 46: the collector enters dispose(weakRef).
disposeEnter(h) ==
    /\ ~aborted
    /\ gcPc = "idle"
    /\ gcPc' = "store"
    /\ gcWeakRef' = h
    /\ disposeCalls' = disposeCalls \cup {h}
    /\ UNCHANGED <<threadState, locals, heap, created, disposed, aborted>>

\* Mutant of disposeStore: the store misses the referred field.
disposeStore_WrongField ==
    /\ ~aborted
    /\ gcPc = "store"
    /\ disposed' = disposed \cup {gcWeakRef}
    /\ gcPc' = "idle"
    /\ gcWeakRef' = Null
    /\ UNCHANGED <<threadState, locals, heap, created, disposeCalls, aborted>>

\* Mutant of disposeStore: dispose also unlinks the cleared handle from the
\* side table that caches it.
disposeStore_UnlinksSlot ==
    /\ ~aborted
    /\ gcPc = "store"
    /\ weakRefs' = [weakRefs EXCEPT ![gcWeakRef].referred = Null]
    /\ extraObjects' = [e \in 1..Len(extraObjects) |->
                            IF extraObjects[e].regularWeakReferenceImpl = gcWeakRef
                            THEN [extraObjects[e] EXCEPT !.regularWeakReferenceImpl = Null]
                            ELSE extraObjects[e]]
    /\ disposed' = disposed \cup {gcWeakRef}
    /\ gcPc' = "idle"
    /\ gcWeakRef' = Null
    /\ UNCHANGED <<threadState, locals, meta, created, disposeCalls, aborted>>

\* Weak.cpp 47-48: the plain store referred = nullptr, and the return.
disposeStore ==
    /\ ~aborted
    /\ gcPc = "store"
    /\ weakRefs' = [weakRefs EXCEPT ![gcWeakRef].referred = Null]
    /\ disposed' = disposed \cup {gcWeakRef}
    /\ gcPc' = "idle"
    /\ gcWeakRef' = Null
    /\ UNCHANGED <<threadState, locals, meta, extraObjects, created, disposeCalls, aborted>>

\* Weak.cpp 50-51: entry of deref(weakRef) on a handle some create returned.
derefEnter(t, h) ==
    /\ ~aborted
    /\ pc[t] = "idle"
    /\ weakRef' = [weakRef EXCEPT ![t] = h]
    /\ startedAfter' = [startedAfter EXCEPT ![t] = h \in disposed]
    /\ pc' = [pc EXCEPT ![t] = "ReadHeapRefAtomic"]
    /\ UNCHANGED <<threadState, object, extraObject, result,
                   heap, collector, history, aborted>>

\* Weak.cpp 52: the atomic load of referred, returned to the caller.
derefRead(t) ==
    /\ ~aborted
    /\ pc[t] = "ReadHeapRefAtomic"
    /\ \E v \in ReadHeapRefAtomic(weakRef[t]) :
           result' = [result EXCEPT ![t] = v]
    /\ pc' = [pc EXCEPT ![t] = "derefRet"]
    /\ UNCHANGED <<threadState, object, extraObject, weakRef, startedAfter,
                   heap, collector, history, aborted>>

\* Mutant of regularWeakReferenceImplBaseObjectUnsafe: the handle itself is
\* returned (an address that is no object's), the load of its referred field
\* is missing.
regularWeakReferenceImplBaseObjectUnsafe_ReturnsHandle(t, h) ==
    /\ ~aborted
    /\ pc[t] = "idle"
    /\ weakRef' = [weakRef EXCEPT ![t] = h]
    /\ result' = [result EXCEPT ![t] = h + NObjects]
    /\ pc' = [pc EXCEPT ![t] = "peekRet"]
    /\ UNCHANGED <<threadState, object, extraObject, startedAfter,
                   heap, collector, history, aborted>>

\* Weak.cpp 55-57: the plain load of referred, returned as a raw pointer.
regularWeakReferenceImplBaseObjectUnsafe(t, h) ==
    /\ ~aborted
    /\ pc[t] = "idle"
    /\ weakRef' = [weakRef EXCEPT ![t] = h]
    /\ \E v \in ReadHeapRefAtomic(h) :
           result' = [result EXCEPT ![t] = v]
    /\ pc' = [pc EXCEPT ![t] = "peekRet"]
    /\ UNCHANGED <<threadState, object, extraObject, startedAfter,
                   heap, collector, history, aborted>>

Next ==
    \/ \E t \in Threads, o \in Objects, state \in ThreadStates : createEnter(t, o, state)
    \/ \E t \in Threads : GetOrInstallLoad(t)
    \/ \E t \in Threads : GetOrInstallCAS(t)
    \/ \E t \in Threads : createFastPath(t)
    \/ \E t \in Threads : createMake(t)
    \/ \E t \in Threads : createPublish(t)
    \/ \E t \in Threads, h \in Returned : derefEnter(t, h)
    \/ \E t \in Threads : derefRead(t)
    \/ \E t \in Threads, h \in Returned : regularWeakReferenceImplBaseObjectUnsafe(t, h)
    \/ \E t \in Threads : Return(t)
    \/ \E h \in Published \cup Returned : disposeEnter(h)
    \/ disposeStore

Spec == Init /\ [][Next]_vars

(***************************************************************************)
(* Properties                                                              *)
(***************************************************************************)

\* The handles cached in the side tables that were installed for object o.
PublishedFor(o) ==
    {extraObjects[e].regularWeakReferenceImpl :
        e \in {x \in 1..Len(extraObjects) : extraObjects[x].base = o}} \ {Null}

\* A create call of thread t has returned after allocating its own candidate.
ReturnedSlowPath(t) == pc[t] = "createRet" /\ weakRef[t] # Null

\* C1: all create(O) calls, sequential or interleaved, return the same
\* handle: the handles returned for one object are all equal, also when two
\* threads both found the slot empty and each allocated a candidate.
C1_SameHandle ==
    /\ \A o \in Objects : \A h1, h2 \in created[o] : h1 = h2
    /\ \A t1, t2 \in Threads :
           (pc[t1] = "createRet" /\ pc[t2] = "createRet" /\ object[t1] = object[t2])
               => result[t1] = result[t2]

\* Two threads both allocated a candidate for the same object and both returned.
C1_Witness ==
    \E t1, t2 \in Threads :
        /\ t1 # t2
        /\ ReturnedSlowPath(t1) /\ ReturnedSlowPath(t2)
        /\ object[t1] = object[t2]
        /\ weakRef[t1] # weakRef[t2]

\* C2: for every object the handles published in its side table or returned
\* by a create number at most one, exactly one once a create has returned;
\* and a non-empty side-table slot never changes to another handle.
C2_AtMostOne ==
    \A o \in Objects :
        /\ Cardinality(PublishedFor(o) \cup created[o]) <= 1
        /\ created[o] # {} => Cardinality(PublishedFor(o) \cup created[o]) = 1

C2_SlotStable ==
    \A e \in 1..Len(extraObjects) :
        extraObjects[e].regularWeakReferenceImpl # Null
            => /\ e <= Len(extraObjects')
               /\ extraObjects'[e].regularWeakReferenceImpl
                      = extraObjects[e].regularWeakReferenceImpl

C2_OneHandlePerObject == [](C2_AtMostOne) /\ [][C2_SlotStable]_vars

\* A create returned the published handle on the fast path while another
\* thread that lost the publishing race has returned it as well.
C2_Witness ==
    \E t1, t2 \in Threads :
        /\ pc[t1] = "createRet" /\ weakRef[t1] = Null
        /\ ReturnedSlowPath(t2) /\ result[t2] # weakRef[t2]
        /\ object[t1] = object[t2]
        /\ PublishedFor(object[t1]) = {result[t1]}

\* C3: once dispose(H) has completed, every dereference(H) that starts later
\* returns empty, whatever calls follow, and a referred field that is null
\* never becomes non-null again (Cleared is terminal).
C3_ClearedReadsEmpty ==
    /\ \A t \in Threads :
           (pc[t] = "derefRet" /\ startedAfter[t]) => result[t] = Null
    /\ \A h \in disposed : weakRefs[h].referred = Null

C3_NoResurrection ==
    \A h \in Handles :
        weakRefs[h].referred = Null
            => h <= Len(weakRefs') /\ weakRefs'[h].referred = Null

C3_ClearedIsTerminal == [](C3_ClearedReadsEmpty) /\ [][C3_NoResurrection]_vars

\* A dereference that started after dispose(H) completed has returned, and a
\* create on H's object has handed H out again in the meantime.
C3_Witness ==
    \E t1, t2 \in Threads :
        /\ pc[t1] = "derefRet" /\ startedAfter[t1] /\ result[t1] = Null
        /\ pc[t2] = "createRet" /\ result[t2] = weakRef[t1]

\* C4: a handle H returned by create(O), on which dispose has not been
\* called, dereferences to O, whatever create and dereference calls on any
\* object interleave.
C4_LiveBeforeDispose ==
    \A t \in Threads : \A o \in Objects :
        (/\ pc[t] = "derefRet"
         /\ weakRef[t] \in created[o]
         /\ weakRef[t] \notin disposeCalls) => result[t] = o

\* A dereference of a handle that was never disposed has returned its object
\* while another thread is about to publish a handle for another object.
C4_Witness ==
    \E t1, t2 \in Threads :
        /\ pc[t1] = "derefRet" /\ weakRef[t1] \notin disposeCalls
        /\ result[t1] \in Objects
        /\ pc[t2] = "GetOrSetRegularWeakReferenceImpl"
        /\ object[t2] # result[t1]

\* C5: a dereference(H) that races with one dispose(H) returns the object H
\* was created for or empty, nothing else; a dereference that starts after
\* the dispose completed returns empty.
C5_NoTornRead ==
    \A t \in Threads :
        pc[t] = "derefRet"
            => /\ result[t] \in {weakRefs[weakRef[t]].target, Null}
               /\ startedAfter[t] => result[t] = Null

\* The step is the store of dispose(h).
DisposeStoreStep(h) == gcPc = "store" /\ gcWeakRef = h /\ gcPc' = "idle"

\* The step is the allocation of a handle by thread t inside create.
AllocationStep(t) ==
    /\ pc[t] = "makeRegularWeakReferenceImpl"
    /\ pc'[t] = "GetOrSetRegularWeakReferenceImpl"
    /\ Len(weakRefs') = Len(weakRefs) + 1
    /\ weakRef'[t] = Len(weakRefs')

\* C6: the referred field is written only at the allocation of its handle
\* inside create (to the non-null target) and by dispose (to null);
\* dereference, peekUnsafe and a create that returns an existing handle
\* leave the referred field of every existing handle unchanged.
C6_ReferredWrites ==
    /\ Len(weakRefs') >= Len(weakRefs)
    /\ \A h \in Handles :
           weakRefs'[h].referred # weakRefs[h].referred
               => DisposeStoreStep(h) /\ weakRefs'[h].referred = Null
    /\ Len(weakRefs') > Len(weakRefs)
           => \E t \in Threads :
                  /\ AllocationStep(t)
                  /\ weakRefs'[weakRef'[t]].referred = object[t]
                  /\ object[t] \in Objects

C6_ReferredWrittenTwice == [][C6_ReferredWrites]_vars

\* A create has returned an existing handle after losing the publishing
\* race; its dropped candidate and the returned handle still refer to the
\* object, and another thread has dereferenced the returned handle.
C6_Witness ==
    \E t1, t2 \in Threads :
        /\ ReturnedSlowPath(t1) /\ result[t1] # weakRef[t1]
        /\ weakRefs[weakRef[t1]].referred = object[t1]
        /\ weakRefs[result[t1]].referred = object[t1]
        /\ pc[t2] = "derefRet" /\ weakRef[t2] = result[t1]

\* C7: dispose(H) sets H.referred to null unconditionally, and on a handle
\* whose referred is null already it changes nothing: not H.referred, not
\* another handle, not a side-table slot.
C7_DisposeStep ==
    \A h \in Handles :
        DisposeStoreStep(h)
            => /\ weakRefs'[h].referred = Null
               /\ weakRefs[h].referred = Null
                      => UNCHANGED <<meta, extraObjects, weakRefs, created>>

C7_DisposeIdempotent == [][C7_DisposeStep]_vars

\* A second dispose(H) is at its store: H was cleared by a dispose that
\* completed before.
C7_Witness ==
    /\ gcPc = "store"
    /\ gcWeakRef \in disposed
    /\ weakRefs[gcWeakRef].referred = Null

\* Thread t is inside create, past its entry.
InsideCreate(t) ==
    pc[t] \in {"GetOrInstall", "GetOrInstallCAS", "GetRegularWeakReferenceImpl",
               "makeRegularWeakReferenceImpl", "GetOrSetRegularWeakReferenceImpl",
               "createRet"}

\* C8: create called by a thread that is not runnable ends in a fatal abort
\* before it touches shared state: the call gets no further than its entry,
\* the aborting step installs no side table, allocates and publishes no
\* handle and returns none, and nothing runs after the abort.
C8_NotRunnableStopsAtEntry ==
    \A t \in Threads :
        /\ InsideCreate(t) => threadState[t] = kRunnable
        /\ threadState[t] # kRunnable => pc[t] = "abort" /\ aborted
        /\ pc[t] = "abort" => result[t] = Null /\ extraObject[t] = Null /\ weakRef[t] = Null

C8_AbortTouchesNothing ==
    (aborted' /\ ~aborted) => UNCHANGED <<heap, history, collector>>

C8_FatalPrecondition ==
    [](C8_NotRunnableStopsAtEntry) /\ [][C8_AbortTouchesNothing]_vars

\* A thread in the native state has called create(o) and the process is
\* aborted; o has no side table, although other objects have handles.
C8_Witness ==
    \E t \in Threads :
        /\ pc[t] = "abort" /\ threadState[t] = kNative /\ aborted
        /\ meta[object[t]] = Null
        /\ Published # {}

\* C9: GetOrInstall installs at most one ExtraObjectData per object under
\* any interleaving: every call on O, concurrent or later, returns the one
\* side table installed for O, so racing creates use the same slot.
C9_OneSideTable ==
    /\ \A e1, e2 \in 1..Len(extraObjects) :
           extraObjects[e1].base = extraObjects[e2].base => e1 = e2
    /\ \A t \in Threads :
           (InsideCreate(t) /\ extraObject[t] # Null)
               => /\ extraObject[t] = meta[object[t]]
                  /\ extraObjects[extraObject[t]].base = object[t]
    /\ \A t1, t2 \in Threads :
           (/\ InsideCreate(t1) /\ InsideCreate(t2)
            /\ object[t1] = object[t2]
            /\ extraObject[t1] # Null /\ extraObject[t2] # Null)
               => extraObject[t1] = extraObject[t2]

C9_InstallStable ==
    \A o \in Objects : meta[o] # Null => meta'[o] = meta[o]

C9_GetOrInstallOnce == [](C9_OneSideTable) /\ [][C9_InstallStable]_vars

\* Two threads raced to install the side table of one object: one has
\* installed it and holds it, the other loaded an empty pointer before and is
\* at its install test, which it will lose.
C9_Witness ==
    \E t1, t2 \in Threads :
        /\ t1 # t2
        /\ pc[t1] = "GetOrInstallCAS"
        /\ pc[t2] = "GetRegularWeakReferenceImpl"
        /\ object[t1] = object[t2]
        /\ meta[object[t1]] # Null
        /\ extraObject[t2] = meta[object[t1]]

\* C10: GetOrSetRegularWeakReferenceImpl is first-writer-wins.  On a slot
\* that holds a handle it returns that handle and leaves the slot as it is;
\* on an empty slot it stores the candidate and returns it; a candidate that
\* lost is never published and never returned by a create.
C10_PublishStep ==
    \A t \in Threads :
        (pc[t] = "GetOrSetRegularWeakReferenceImpl" /\ pc'[t] = "createRet")
            => LET e == extraObject[t]
                   held == extraObjects[e].regularWeakReferenceImpl
               IN  IF held # Null
                   THEN /\ extraObjects'[e].regularWeakReferenceImpl = held
                        /\ result'[t] = held
                        /\ weakRef[t] \notin Published' \cup Returned'
                   ELSE /\ extraObjects'[e].regularWeakReferenceImpl = weakRef[t]
                        /\ result'[t] = weakRef[t]

C10_LoserStaysPrivate ==
    \A t \in Threads :
        (ReturnedSlowPath(t) /\ result[t] # weakRef[t])
            => weakRef[t] \notin Published \cup Returned

C10_FirstWriterWins == [](C10_LoserStaysPrivate) /\ [][C10_PublishStep]_vars

\* A create has lost the publishing race: it returned the handle another
\* thread published, which is not its own candidate, and the winner's call
\* is over.
C10_Witness ==
    \E t \in Threads :
        /\ ReturnedSlowPath(t) /\ result[t] # weakRef[t]
        /\ extraObjects[extraObject[t]].regularWeakReferenceImpl = result[t]
        /\ \A u \in Threads \ {t} : pc[u] = "idle"

\* The steps by which thread t continues a call it has started.
Continue(t) ==
    \/ GetOrInstallLoad(t)
    \/ GetOrInstallCAS(t)
    \/ createFastPath(t)
    \/ createMake(t)
    \/ createPublish(t)
    \/ derefRead(t)
    \/ Return(t)

\* Fair scheduling: a mutator that can continue its call, and the collector
\* that can complete its dispose, eventually do.
FairSpec ==
    /\ Spec
    /\ \A t \in Threads : WF_vars(Continue(t))
    /\ WF_vars(disposeStore)

\* Thread t is inside a call that has not returned.
InCall(t) == pc[t] \notin {"idle", "abort", "createRet", "derefRet", "peekRet"}

\* Thread t's call has returned.
HasReturned(t) == pc[t] \in {"createRet", "derefRet", "peekRet"}

MaxReclaimed == 1

\* The side tables whose object was reclaimed.
DeadSideTables ==
    {e \in 1..Len(extraObjects) : meta[extraObjects[e].base] # e}

\* The handles that were published for a reclaimed object.
DeadHandles ==
    {extraObjects[e].regularWeakReferenceImpl : e \in DeadSideTables} \ {Null}

\* No mutator holds object o: no create(o) is under way, no dereference has
\* returned a reference to it, and every handle a mutator or the collector
\* can reach has been cleared of it.
Unreachable(o) ==
    /\ \A t \in Threads : object[t] # o
    /\ \A t \in Threads : ~(pc[t] = "derefRet" /\ result[t] = o)
    /\ \A h \in Published \cup Returned : weakRefs[h].referred # o
    /\ gcPc = "idle"

\* The collector reclaims the unreachable object o and destroys its side
\* table; the identity o is free for a new object, which has no side table.
Reclaim(o) ==
    /\ ~aborted
    /\ meta[o] # Null
    /\ Cardinality(DeadSideTables) < MaxReclaimed
    /\ Unreachable(o)
    /\ meta' = [meta EXCEPT ![o] = Null]
    /\ UNCHANGED <<threadState, locals, extraObjects, weakRefs, collector, history, aborted>>

\* The steps of create, deref and dispose, and the reclamation.  The unsafe
\* accessor only reads and is left to Spec.
ReclaimNext ==
    \/ \E t \in Threads, o \in Objects, state \in ThreadStates : createEnter(t, o, state)
    \/ \E t \in Threads : GetOrInstallLoad(t)
    \/ \E t \in Threads : GetOrInstallCAS(t)
    \/ \E t \in Threads : createFastPath(t)
    \/ \E t \in Threads : createMake(t)
    \/ \E t \in Threads : createPublish(t)
    \/ \E t \in Threads, h \in Returned : derefEnter(t, h)
    \/ \E t \in Threads : derefRead(t)
    \/ \E t \in Threads : Return(t)
    \/ \E h \in Published \cup Returned : disposeEnter(h)
    \/ disposeStore
    \/ \E o \in Objects : Reclaim(o)

ReclaimSpec == Init /\ [][ReclaimNext]_vars

\* C12: after create(A) returned H, H was disposed and A was reclaimed with
\* its side table, a create on the object that now has A's identity returns
\* a handle distinct from H; that handle dereferences to the new object,
\* and a dereference of H still returns empty.
C12_NewHandleAfterReclaim ==
    /\ \A h \in DeadHandles : weakRefs[h].referred = Null
    /\ \A t \in Threads :
           pc[t] = "createRet"
               => /\ result[t] \notin DeadHandles
                  /\ result[t] = extraObjects[meta[object[t]]].regularWeakReferenceImpl
    /\ \A t \in Threads :
           (pc[t] = "derefRet" /\ startedAfter[t] /\ weakRef[t] \in DeadHandles)
               => result[t] = Null
    /\ \A t \in Threads :
           (/\ pc[t] = "derefRet"
            /\ weakRef[t] \in Published \ DeadHandles
            /\ weakRef[t] \notin disposeCalls)
               => result[t] = weakRefs[weakRef[t]].target

\* Handle H of a reclaimed object is cleared; a create on the identity has
\* returned a new handle, whose dereference returned the new object, and a
\* later dereference of H has returned empty.
C12_Witness ==
    \E t \in Threads, h \in DeadHandles, o \in Objects :
        /\ h \in created[o]
        /\ \E h2 \in created[o] \ {h} :
               /\ extraObjects[meta[o]].regularWeakReferenceImpl = h2
               /\ weakRefs[h2].referred = o
        /\ pc[t] = "derefRet" /\ weakRef[t] = h /\ result[t] = Null

(***************************************************************************)
(* Allocation failure inside create (spec.md 7).                           *)
(***************************************************************************)

\* Mutant of createMakeFails: the failure is swallowed; create goes on with
\* nullptr as its candidate.
createMakeFails_Swallowed(t) ==
    /\ ~aborted
    /\ pc[t] = "makeRegularWeakReferenceImpl"
    /\ weakRef' = [weakRef EXCEPT ![t] = Null]
    /\ pc' = [pc EXCEPT ![t] = "GetOrSetRegularWeakReferenceImpl"]
    /\ UNCHANGED <<threadState, object, extraObject, result, startedAfter,
                   heap, collector, history, aborted>>

\* Weak.cpp 40-41 when the allocator is out of memory: the allocation inside
\* makeRegularWeakReferenceImpl raises the allocator's out-of-memory signal.
\* create is noexcept (Weak.cpp 32) and handles nothing, so the signal leaves
\* create without a return and ends the process.
createMakeFails(t) ==
    /\ ~aborted
    /\ pc[t] = "makeRegularWeakReferenceImpl"
    /\ pc' = [pc EXCEPT ![t] = "outOfMemory"]
    /\ aborted' = TRUE
    /\ UNCHANGED <<threadState, object, extraObject, weakRef, result, startedAfter,
                   heap, collector, history>>

OomNext ==
    \/ Next
    \/ \E t \in Threads : createMakeFails(t)

OomSpec == Init /\ [][OomNext]_vars

\* C13: a failed allocation of the handle inside create(O) is not swallowed:
\* the out-of-memory signal is raised out of create, create returns no handle
\* as if it had succeeded, and the call publishes nothing in O's slot.
C13_FailureRaised ==
    /\ \A t \in Threads :
           pc[t] = "outOfMemory"
               => aborted /\ result[t] = Null /\ weakRef[t] = Null
    /\ \A t \in Threads : pc[t] = "createRet" => result[t] \in Handles
    /\ \A o \in Objects : created[o] \subseteq Handles
    /\ Published \subseteq Handles

C13_FailureStep ==
    \A t \in Threads :
        (pc[t] = "makeRegularWeakReferenceImpl" /\ Len(weakRefs') = Len(weakRefs)
            /\ pc'[t] # pc[t])
            => /\ pc'[t] = "outOfMemory" /\ aborted'
               /\ UNCHANGED <<heap, history, result>>

CachedFor(t) == extraObjects[extraObject[t]].regularWeakReferenceImpl

\* C14: a create(O) that reads O's slot after a handle was published there
\* returns that handle without allocating and without changing the slot; a
\* handle is allocated only in a call that read the slot as empty.
C14_ReadOfSlot ==
    /\ \A t \in Threads :
           (pc[t] = "GetRegularWeakReferenceImpl" /\ pc'[t] # pc[t])
               => IF CachedFor(t) # Null
                  THEN /\ pc'[t] = "createRet"
                       /\ result'[t] = CachedFor(t)
                       /\ weakRef'[t] = Null
                       /\ UNCHANGED <<meta, extraObjects, weakRefs>>
                  ELSE /\ pc'[t] = "makeRegularWeakReferenceImpl"
                       /\ UNCHANGED <<meta, extraObjects, weakRefs>>
    /\ \A t \in Threads :
           (pc'[t] = "makeRegularWeakReferenceImpl" /\ pc[t] # pc'[t])
               => pc[t] = "GetRegularWeakReferenceImpl" /\ CachedFor(t) = Null
    /\ Len(weakRefs') # Len(weakRefs) => \E t \in Threads : AllocationStep(t)

C14_FastPathAllocatesNothing == [][C14_ReadOfSlot]_vars

\* A create has returned the cached handle on the fast path; the handle is
\* the only one that was ever allocated.
C14_Witness ==
    \E t \in Threads :
        /\ pc[t] = "createRet" /\ weakRef[t] = Null
        /\ result[t] = CachedFor(t) /\ result[t] # Null
        /\ Len(weakRefs) = 1

\* The handles that were allocated for object o.
AllocatedFor(o) == {h \in Handles : weakRefs[h].target = o}

\* C15 as stated: a RegularWeakReferenceImpl is allocated at most once per
\* object, concurrent creates included.
C15_AllocatedOnce ==
    \A o \in Objects : Cardinality(AllocatedFor(o)) <= 1

\* C15, amended: every create(O) that read the slot as empty allocates one
\* candidate, so concurrent creates allocate up to one handle per thread for
\* an object; at most one of them is kept (published or returned), the
\* others stay private to the call that allocated them.
C15_KeptOnce ==
    \A o \in Objects :
        /\ Cardinality(AllocatedFor(o)) <= NThreads
        /\ Cardinality(AllocatedFor(o) \cap (Published \cup Returned)) <= 1
        /\ \A h \in AllocatedFor(o) \ (Published \cup Returned) :
               \A t \in Threads : pc[t] = "createRet" => result[t] # h

\* Two handles were allocated for one object by racing creates; one is
\* published and was returned, the other was dropped, and all calls are over.
C15_Witness ==
    \E o \in Objects :
        /\ Cardinality(AllocatedFor(o)) = 2
        /\ Cardinality(AllocatedFor(o) \cap Published) = 1
        /\ created[o] = AllocatedFor(o) \cap Published
        /\ \A t \in Threads : pc[t] = "idle"

\* The step is a call of the unsafe accessor by thread t.
PeekStep(t) == pc[t] = "idle" /\ pc'[t] = "peekRet"

\* C16: peekUnsafe(H) returns the value of H.referred: one of the results a
\* dereference(H) in the same state can return, which is, outside a
\* dispose(H) under way, the field's value: the target before dispose(H) and
\* null after it; and the call changes no state.
C16_PeekStep ==
    \A t \in Threads :
        PeekStep(t) =>
            LET h == weakRef'[t]
            IN  /\ h \in Handles
                /\ result'[t] \in ReadHeapRefAtomic(h)
                /\ ~StoreInFlight(h) => /\ result'[t] = weakRefs[h].referred
                                        /\ ReadHeapRefAtomic(h) = {result'[t]}
                /\ h \notin disposeCalls => result'[t] = weakRefs[h].target
                /\ h \in disposed => result'[t] = Null
                /\ UNCHANGED <<threadState, heap, collector, history, aborted>>

C16_PeekReadsReferred == [][C16_PeekStep]_vars

\* The unsafe accessor has returned null for a disposed handle and, in
\* another thread, the target for a handle that was never disposed.
C16_Witness ==
    \E t1, t2 \in Threads :
        /\ pc[t1] = "peekRet" /\ weakRef[t1] \in disposed /\ result[t1] = Null
        /\ pc[t2] = "peekRet" /\ weakRef[t2] \notin disposeCalls
        /\ result[t2] = weakRefs[weakRef[t2]].target

\* C17: if O's slot holds handle H, then H.referred is O or null, and null
\* only if a dispose(H) has run; a handle is published with its referred
\* field initialized to O, so no thread gets from the slot (or from create)
\* a handle whose referred is uninitialized or another object.
C17_PublishedReferred ==
    /\ \A e \in 1..Len(extraObjects) :
           LET h == extraObjects[e].regularWeakReferenceImpl
           IN  h # Null
                   => /\ h \in Handles
                      /\ weakRefs[h].referred \in {extraObjects[e].base, Null}
                      /\ weakRefs[h].referred = Null => h \in disposed
    /\ \A t \in Threads :
           pc[t] = "createRet"
               => /\ weakRefs[result[t]].referred \in {object[t], Null}
                  /\ weakRefs[result[t]].referred = Null => result[t] \in disposed

C17_PublishStep ==
    \A e \in 1..Len(extraObjects) :
        (extraObjects[e].regularWeakReferenceImpl = Null
            /\ extraObjects'[e].regularWeakReferenceImpl # Null)
            => weakRefs[extraObjects'[e].regularWeakReferenceImpl].referred
                   = extraObjects[e].base

C17_PublishedInitialized == [](C17_PublishedReferred) /\ [][C17_PublishStep]_vars

\* One object's slot holds a handle that a dispose has cleared while another
\* object's slot holds a handle that refers to its object.
C17_Witness ==
    \E e1, e2 \in 1..Len(extraObjects) :
        /\ extraObjects[e1].regularWeakReferenceImpl \in disposed
        /\ weakRefs[extraObjects[e1].regularWeakReferenceImpl].referred = Null
        /\ extraObjects[e2].regularWeakReferenceImpl # Null
        /\ weakRefs[extraObjects[e2].regularWeakReferenceImpl].referred
               = extraObjects[e2].base

\* C18: dispose(H) changes H.referred and nothing else: no side-table slot
\* and no other handle.  So a create(O) that reads the slot after dispose(H)
\* returns the cleared H, leaves it cleared and allocates nothing.
C18_DisposeFrame ==
    /\ \A h \in Handles :
           DisposeStoreStep(h)
               => /\ UNCHANGED <<meta, extraObjects>>
                  /\ Len(weakRefs') = Len(weakRefs)
                  /\ \A h2 \in Handles \ {h} : weakRefs'[h2] = weakRefs[h2]
                  /\ weakRefs'[h].target = weakRefs[h].target
    /\ \A t \in Threads :
           (/\ pc[t] = "GetRegularWeakReferenceImpl" /\ pc'[t] # pc[t]
            /\ CachedFor(t) \in disposed)
               => /\ pc'[t] = "createRet"
                  /\ result'[t] = CachedFor(t)
                  /\ UNCHANGED <<meta, extraObjects, weakRefs>>
                  /\ weakRefs'[result'[t]].referred = Null

C18_ClearedHandleStaysCached ==
    \A e \in 1..Len(extraObjects) :
        \A h \in disposed :
            (h \in created[extraObjects[e].base] /\ meta[extraObjects[e].base] = e)
                => extraObjects[e].regularWeakReferenceImpl = h

C18_DisposeChangesOnlyReferred ==
    [](C18_ClearedHandleStaysCached) /\ [][C18_DisposeFrame]_vars

\* After dispose(H) a create on H's object has returned H on the fast path;
\* H is cleared and is the only handle ever allocated.
C18_Witness ==
    \E t \in Threads :
        /\ pc[t] = "createRet" /\ weakRef[t] = Null
        /\ result[t] \in disposed
        /\ weakRefs[result[t]].referred = Null
        /\ Len(weakRefs) = 1

====
